---- MODULE Spec2Model ----
(***************************************************************************)
(* Metric evaluation and aggregation engine of the scorer CLI              *)
(* (src/src/scorer/cli_updated.py and src/src/scorer/metrics/*.py).        *)
(*                                                                         *)
(* Units.  A score is an integer number of thousandths (1000 = 1.0); a     *)
(* field of an emitted record is an integer number of hundredths, because  *)
(* main() emits round(x, 2).  Artifact sizes are in megabytes (10^6        *)
(* bytes).  Time is an integer number of milliseconds read from the        *)
(* variable now, which stands for time.time().                             *)
(*                                                                         *)
(* Python values are tagged records: Num(v), None, Map(m); what a task     *)
(* produces is Ret(val, lat), Bare(v) (a return that is not a pair),       *)
(* Raise (an Exception) or SysExit (SystemExit, raised by exit(1)).        *)
(***************************************************************************)
EXTENDS Integers, Sequences, FiniteSets, TLC

\* ---------------------------------------------------------------- bounds
MaxLines == 2
MaxUrls == 2

\* ------------------------------------------------------ program constants
MAX_WORKERS == 4

Metrics == {"size", "license", "performance_claims", "bus_factor", "ramp_up",
            "dataset_quality", "dataset_and_code_score", "code_quality"}

ScalarMetrics == Metrics \ {"size"}

Tiers == {"raspberry_pi", "jetson_nano", "desktop_pc", "aws_server"}

\* ------------------------------------------------------- Python values
Num(v) == [k |-> "num", v |-> v]
None == [k |-> "none"]
Map(m) == [k |-> "map", m |-> m]

Ret(val, lat) == [tag |-> "ret", val |-> val, lat |-> lat]
Bare(v) == [tag |-> "bare", val |-> Num(v)]
Raise == [tag |-> "raise"]
SysExit == [tag |-> "exit"]
NoRes == [tag |-> "nil"]

\* Python truthiness of a value (if size_dict: ...)
Truthy(x) ==
    CASE x.k = "none" -> FALSE
      [] x.k = "num" -> x.v # 0
      [] x.k = "map" -> DOMAIN x.m # {}

\* round(a / b) to the nearest integer, ties to even (Python round())
RoundDiv(a, b) ==
    LET q == a \div b
        r == a % b
    IN  IF 2 * r < b THEN q
        ELSE IF 2 * r > b THEN q + 1
        ELSE IF q % 2 = 0 THEN q ELSE q + 1

\* round(x, 2) of a score in thousandths, as a number of hundredths
Round2(v) == RoundDiv(v, 10)

Min(a, b) == IF a < b THEN a ELSE b
Max(a, b) == IF a > b THEN a ELSE b

RECURSIVE SumOver(_, _)
SumOver(f, S) ==
    IF S = {} THEN 0
    ELSE LET x == CHOOSE y \in S : TRUE
         IN  f[x] + SumOver(f, S \ {x})

\* ------------------------------------------------------------------ URLs
\* A URL is its scheme, host, path segments and the extension of its path.
Url(scheme, host, segs, ext) ==
    [scheme |-> scheme, host |-> host, segs |-> segs, ext |-> ext]

U_model == Url("https", "huggingface.co", <<"org", "m">>, "")
U_model_short == Url("https", "huggingface.co", <<"org">>, "")
U_dataset == Url("https", "huggingface.co", <<"datasets", "org", "d">>, "")
U_space == Url("https", "huggingface.co", <<"spaces", "org", "s">>, "")
U_code == Url("https", "github.com", <<"org", "r">>, "")
U_ftp == Url("ftp", "example.org", <<"pub", "f">>, "")

_CODE_HOSTS == {"github.com", "gitlab.com", "bitbucket.org", "sourceforge.net",
                "codeberg.org", "gitee.com", "dev.azure.com",
                "azure.microsoft.com", "visualstudio.com"}
_DATASET_HOSTS == {"huggingface.co", "kaggle.com", "zenodo.org", "figshare.com",
                   "osf.io", "openml.org", "archive.ics.uci.edu",
                   "data.mendeley.com", "dataverse.org", "doi.org", "data.gov",
                   "data.gov.uk"}
_STORAGE_HOSTS == {"s3.amazonaws.com", "storage.googleapis.com",
                   "blob.core.windows.net", "drive.google.com", "dropbox.com",
                   "dl.dropboxusercontent.com", "onedrive.live.com", "1drv.ms"}
_MODEL_HOSTS == {"tfhub.dev", "modelscope.cn"}
_DATA_EXTS == {".zip", ".tar", ".tar.gz", ".tgz", ".7z", ".csv", ".tsv",
               ".jsonl", ".json", ".parquet", ".feather", ".xlsx", ".xls",
               ".npz", ".npy", ".h5", ".hdf5", ".mat", ".wav", ".flac", ".mp3",
               ".jpg", ".jpeg", ".png", ".tiff"}
_CODE_EXTS == {".py", ".ipynb", ".c", ".cpp", ".h", ".hpp", ".java", ".js",
               ".ts", ".m", ".go", ".rb", ".rs", ".php", ".scala", ".kt", ".sh"}

\* first path segments that begin with "datasets" / "spaces"
DatasetsPrefixed == {"datasets"}
SpacesPrefixed == {"spaces"}

classify_url(url) ==
    IF url.scheme \notin {"http", "https"} THEN "unknown"
    ELSE IF url.host \in _CODE_HOSTS THEN "code"
    ELSE IF url.host = "huggingface.co" THEN
        IF Len(url.segs) > 0 /\ url.segs[1] \in DatasetsPrefixed THEN "dataset"
        ELSE IF Len(url.segs) > 0 /\ url.segs[1] \in SpacesPrefixed THEN "dataset"
        ELSE "model"
    ELSE IF url.host \in _MODEL_HOSTS THEN "model"
    ELSE IF url.host \in _DATASET_HOSTS THEN "dataset"
    ELSE IF url.host \in _STORAGE_HOSTS THEN "dataset"
    ELSE IF url.ext \in _DATA_EXTS THEN "dataset"
    ELSE IF url.ext \in _CODE_EXTS THEN "code"
    ELSE "dataset"

\* url.split("/")
SplitUrl(url) == <<url.scheme, "", url.host>> \o url.segs

\* parts.index(x), 1-based; 0 stands for ValueError
IndexOf(parts, x) ==
    IF \E i \in 1..Len(parts) : parts[i] = x
    THEN CHOOSE i \in 1..Len(parts) :
            parts[i] = x /\ \A j \in 1..(i - 1) : parts[j] # x
    ELSE 0

RepoId(segs) == [k |-> "id", segs |-> segs]
RepoNone == [k |-> "none"]
RepoRaise == [k |-> "raise"]

\* get_repo_id: the identifier, None (ValueError/IndexError caught inside),
\* or an exception that leaves the function (repo_id never bound)
get_repo_id(url, url_type) ==
    LET parts == SplitUrl(url)
        hf == IndexOf(parts, "huggingface.co")
        gh == IndexOf(parts, "github.com")
    IN  CASE url_type = "model" ->
                IF hf = 0 \/ Len(parts) < hf + 2 THEN RepoNone
                ELSE RepoId(<<parts[hf + 1], parts[hf + 2]>>)
          [] url_type = "dataset" ->
                IF hf = 0 \/ Len(parts) < hf + 1 THEN RepoNone
                ELSE IF parts[hf + 1] = "datasets" THEN
                    IF Len(parts) > hf + 2
                    THEN RepoId(<<parts[hf + 2], parts[hf + 3]>>)
                    ELSE IF Len(parts) < hf + 2 THEN RepoNone
                    ELSE RepoId(<<parts[hf + 2]>>)
                ELSE RepoRaise
          [] url_type = "code" ->
                IF gh = 0 \/ Len(parts) < gh + 2 THEN RepoNone
                ELSE RepoId(<<parts[gh + 1], parts[gh + 2]>>)
          [] OTHER -> RepoRaise

\* main, lines 218-225: repo = get_repo_id(...) or "" (also "" when it
\* raises); name is the part of repo after the first "/"
NameOf(url, url_type) ==
    LET r == get_repo_id(url, url_type)
    IN  IF r.k # "id" THEN ""
        ELSE IF Len(r.segs) = 2 THEN r.segs[2] ELSE r.segs[1]

\* url_type.upper()
Upper(url_type) ==
    CASE url_type = "model" -> "MODEL"
      [] url_type = "dataset" -> "DATASET"
      [] url_type = "code" -> "CODE"
      [] OTHER -> url_type

\* ------------------------------------------------------------- SizeFit
\* HARDWARE_LIMITS, in megabytes
HARDWARE_LIMITS ==
    [t \in Tiers |->
        CASE t = "raspberry_pi" -> 4000
          [] t = "jetson_nano" -> 4000
          [] t = "desktop_pc" -> 32000
          [] t = "aws_server" -> 512000]

\* USABLE_FRACTION, in percent
USABLE_FRACTION ==
    [t \in Tiers |->
        CASE t = "raspberry_pi" -> 26
          [] t = "jetson_nano" -> 35
          [] t = "desktop_pc" -> 85
          [] t = "aws_server" -> 98]

\* _K_UNDER = 1.9, times 100
K_UNDER == 190

\* a curve that gives the full score again once the artifact is over budget
_score_on_hardware_over_budget_full(total, hw_key) ==
    LET effective == Max(1, (HARDWARE_LIMITS[hw_key] * USABLE_FRACTION[hw_key]) \div 100)
        raw == IF total <= 0 THEN 100
               ELSE IF total <= effective
                    THEN RoundDiv(Max(0, 100 * effective - K_UNDER * total), effective)
                    ELSE 100
    IN  Max(0, Min(100, raw))

\* _score_on_hardware with _score_utilization inlined on u = total/effective:
\* the score rounded to two decimals, in hundredths.  Over budget the curve
\* 1 - 1.9 - 3(u - 1) is negative and max(0.0, .) gives 0.
_score_on_hardware(total, hw_key) ==
    LET effective == Max(1, (HARDWARE_LIMITS[hw_key] * USABLE_FRACTION[hw_key]) \div 100)
        raw == IF total <= 0 THEN 100
               ELSE IF total <= effective
                    THEN RoundDiv(Max(0, 100 * effective - K_UNDER * total), effective)
                    ELSE 0
    IN  Max(0, Min(100, raw))

\* what the listing/size fetch of get_size_score gives: failure or a total
FetchFail == [ok |-> FALSE]
FetchBytes(n) == [ok |-> TRUE, total |-> n]

get_size_score(url, url_type, fetch, lat) ==
    LET repo == get_repo_id(url, url_type)
        total_bytes == IF repo.k = "none" \/ ~fetch.ok
                          \/ url_type \notin {"model", "dataset", "code"}
                       THEN 0 ELSE fetch.total
    IN  IF repo.k = "raise" THEN Ret(None, lat)
        ELSE Ret(Map([hw \in Tiers |-> 10 * _score_on_hardware(total_bytes, hw)]), lat)

\* ------------------------------------------------------- LicenseCompat
compatible_licenses == {"apache-2.0", "mit", "bsd-2-clause", "bsd-3-clause", "lgpl-2.1"}

\* license strings (lower-cased, stripped) by the prefix is_compatible tests
NormalizeLicense(l) ==
    CASE l \in {"apache-2.0", "apache 2.0"} -> "apache-2.0"
      [] l \in {"mit", "mit license"} -> "mit"
      [] l \in {"bsd 2-clause"} -> "bsd-2-clause"
      [] l \in {"bsd 3-clause"} -> "bsd-3-clause"
      [] l \in {"lgpl v2.1"} -> "lgpl-2.1"
      [] OTHER -> l

is_compatible(l) == l # "" /\ NormalizeLicense(l) \in compatible_licenses

InfoFail == [ok |-> FALSE]
LicenseInfo(l) == [ok |-> TRUE, license |-> l]

get_license_score(url, url_type, info, lat) ==
    LET repo == get_repo_id(url, url_type)
    IN  IF repo.k = "raise" THEN Ret(None, lat)
        ELSE IF url_type \in {"model", "dataset", "code"} /\ (repo.k = "none" \/ ~info.ok)
             THEN Raise
        ELSE IF url_type \in {"model", "dataset", "code"} /\ is_compatible(info.license)
             THEN Ret(Num(1000), lat)
        ELSE Ret(Num(0), lat)

\* --------------------------------------------------- PerformanceClaims
CardFail == [ok |-> FALSE]
Card(kc) == [ok |-> TRUE, keyword_count |-> kc, has_test |-> FALSE]

\* min(keyword_count / 10, 1.0), rounded to two decimals; 0.0 when the URL is
\* not a Hugging Face one or the README download fails
_check_model_card_performance(url, card) ==
    IF url.host # "huggingface.co" \/ ~card.ok THEN 0
    ELSE 10 * Round2(Min(card.keyword_count * 100, 1000))

\* _check_code_repo_performance: 0.0 when the clone fails, else
\* _keyword_score = min(1.0, matches / 3), at least 0.7 with a test/eval file
_check_code_repo_performance(card) ==
    IF ~card.ok THEN 0
    ELSE LET score == Min(1000, (card.keyword_count * 1000) \div 3)
         IN  IF card.has_test THEN Max(score, 700) ELSE score

get_performance_claims(url, url_type, card, lat) ==
    CASE url_type = "code" -> Ret(Num(_check_code_repo_performance(card)), lat)
      [] url_type = "model" -> Ret(Num(_check_model_card_performance(url, card)), lat)
      [] OTHER -> Ret(Num(0), lat)

\* ----------------------------------------------------------- BusFactor
HistFail == [ok |-> FALSE]
Hist(nfiles, bf, owners) == [ok |-> TRUE, nfiles |-> nfiles, bf |-> bf, owners |-> owners]

\* min(1.0, bus_factor / max(1, number of owning authors))
_normalize_score(bus_factor, owners) == Min(1000, (bus_factor * 1000) \div Max(1, owners))

\* get_bus_factor without the except clause of lines 258-260
get_bus_factor_unguarded(url, url_type, hist, lat) ==
    IF ~hist.ok THEN Raise
    ELSE IF hist.nfiles = 0 THEN Ret(Num(0), lat)
    ELSE Ret(Num(_normalize_score(hist.bf, hist.owners)), lat)

\* hist: the clone failed (or the target did not resolve), or the history
\* gave nfiles analysable files, raw bus factor bf and owners owning authors
get_bus_factor(url, url_type, hist, lat) ==
    IF ~hist.ok THEN Ret(Num(0), lat)
    ELSE IF hist.nfiles = 0 THEN Ret(Num(0), lat)
    ELSE Ret(Num(_normalize_score(hist.bf, hist.owners)), lat)

\* -------------------------------------------------------------- RampUp
CloneFail == [ok |-> FALSE]
Judged(score) == [ok |-> TRUE, llm |-> TRUE, score |-> score, hits |-> 0]
Unjudged(hits) == [ok |-> TRUE, llm |-> FALSE, score |-> 0, hits |-> hits]

\* max(0.0, min(1.0, 0.15 + 0.06 * hits))
_heuristic_rampup(hits) == Max(0, Min(1000, 150 + 60 * hits))

\* _to_clone_url raises ValueError for a host URL with fewer than two (three
\* for /datasets) path segments
CloneUrlRaises(url) ==
    \/ url.host = "github.com" /\ Len(url.segs) < 2
    \/ /\ url.host = "huggingface.co"
       /\ IF Len(url.segs) > 0 /\ url.segs[1] = "datasets"
          THEN Len(url.segs) < 3 ELSE Len(url.segs) < 2

get_ramp_up(url, url_type, repo, lat) ==
    IF CloneUrlRaises(url) \/ ~repo.ok THEN Ret(Num(0), lat)
    ELSE LET score == IF repo.llm THEN repo.score ELSE _heuristic_rampup(repo.hits)
         IN  Ret(Num(Max(0, Min(1000, score))), lat)

\* ------------------------------------------------------ DatasetQuality
max_downloads == 1000000
max_likes == 2000

\* log10(n + 1) * 10^4 for the counts used here
Log10P1(n) ==
    CASE n = 100 -> 20043
      [] n = 2000 -> 33012
      [] n = 10000 -> 40000
      [] n = 1000000 -> 60000
      [] n = 10000000 -> 70000
      [] OTHER -> 0

\* normalize without the min(1.0, .) cap
normalize_uncapped(value, target) ==
    IF value <= 0 THEN 0
    ELSE (Log10P1(value) * 10000) \div Log10P1(target)

\* normalize(value, target), in units of 10^-4
normalize(value, target) ==
    IF value <= 0 THEN 0
    ELSE Min(10000, (Log10P1(value) * 10000) \div Log10P1(target))

DatasetInfo(downloads, likes) == [ok |-> TRUE, downloads |-> downloads, likes |-> likes]

get_dataset_quality_score(url, url_type, info, lat) ==
    LET repo == get_repo_id(url, url_type)
        downloads_score == normalize(info.downloads, max_downloads)
        likes_score == normalize(info.likes, max_likes)
    IN  IF url_type # "dataset" THEN Ret(None, lat)
        ELSE IF repo.k = "raise" THEN Ret(None, lat)
        ELSE IF repo.k = "none" \/ ~info.ok THEN Raise
        ELSE IF info.likes = 0 THEN Bare(10 * RoundDiv(downloads_score, 100))
        ELSE Ret(Num(10 * RoundDiv(8 * downloads_score + 2 * likes_score, 1000)), lat)

\* ----------------------------------------------- DatasetAndCodeLinkage
RepoInfo(documented, has_code) ==
    [ok |-> TRUE, documented |-> documented, has_code |-> has_code]

get_dataset_and_code_score(url, url_type, info, lat) ==
    LET repo == get_repo_id(url, url_type)
    IN  IF repo.k = "raise" THEN Ret(None, lat)
        ELSE IF url_type \notin {"model", "dataset"} THEN Ret(None, lat)
        ELSE IF repo.k = "none" \/ ~info.ok THEN Ret(None, lat)
        ELSE Ret(Num((IF info.documented THEN 500 ELSE 0)
                     + (IF info.has_code THEN 500 ELSE 0)), lat)

\* --------------------------------------------------------- CodeQuality
\* what the clone and the analysis of the repository give
Analysis(complexity, reliability, testability, portability, defs, documented, readme) ==
    [ok |-> TRUE, complexity |-> complexity, reliability |-> reliability,
     testability |-> testability, portability |-> portability,
     defs |-> defs, documented |-> documented, readme |-> readme]

\* clone failure: exit(1), i.e. SystemExit; no function or class in the
\* repository: documented / total divides by zero
_check_code_repo_quality(repo) ==
    IF ~repo.ok THEN SysExit
    ELSE IF repo.defs = 0 THEN Raise
    ELSE LET reusability == Max((repo.documented * 1000) \div repo.defs,
                                IF repo.readme THEN 500 ELSE 0)
             final_score == (70 * repo.complexity + 5 * repo.reliability
                             + 5 * repo.testability + 10 * repo.portability
                             + 10 * reusability) \div 100
         IN  Ret(Num(Min(1000, final_score)), 0)

get_code_quality(url, url_type, repo, lat) ==
    IF url_type # "code" THEN Ret(Num(0), lat)
    ELSE LET r == _check_code_repo_quality(repo)
         IN  IF r.tag = "ret" THEN Ret(r.val, lat) ELSE r

\* ------------------------------------------- environments of the providers
\* What the outside world (hosting services, git, the judge) answers to the
\* provider calls of one run, and how long each call takes (ms).
\*   "up":    every service answers; a small, permissively licensed artifact
\*   "big":   every service answers; a 2 GB artifact, three owners, no judge
\*   "flaky": the metadata fetches of license and dataset-and-code fail, the
\*            dataset has no likes, the repository defines no function,
\*            the history has no analysable file
\*   "down":  every fetch and clone fails
SCENARIOS == {"up", "big", "flaky", "down"}

Answer(s, m) ==
    CASE m = "size" ->
            (CASE s = "up" -> FetchBytes(0)
               [] s = "big" -> FetchBytes(2000)
               [] s = "flaky" -> FetchBytes(300)
               [] OTHER -> FetchFail)
      [] m = "license" ->
            (CASE s = "up" -> LicenseInfo("mit")
               [] s = "big" -> LicenseInfo("proprietary")
               [] OTHER -> InfoFail)
      [] m = "performance_claims" ->
            (CASE s = "up" -> Card(12)
               [] s = "down" -> CardFail
               [] OTHER -> Card(3))
      [] m = "bus_factor" ->
            (CASE s = "up" -> Hist(2, 1, 1)
               [] s = "down" -> HistFail
               [] s = "flaky" -> Hist(0, 0, 0)
               [] OTHER -> Hist(3, 1, 3))
      [] m = "ramp_up" ->
            (CASE s = "up" -> Judged(1000)
               [] s = "down" -> CloneFail
               [] OTHER -> Unjudged(3))
      [] m = "dataset_quality" ->
            (CASE s = "up" -> DatasetInfo(10000000, 2000)
               [] s = "big" -> DatasetInfo(10000, 100)
               [] s = "flaky" -> DatasetInfo(10000, 0)
               [] OTHER -> InfoFail)
      [] m = "dataset_and_code_score" ->
            (CASE s = "up" -> RepoInfo(FALSE, TRUE)
               [] s = "big" -> RepoInfo(TRUE, TRUE)
               [] OTHER -> InfoFail)
      [] m = "code_quality" ->
            (CASE s = "up" -> Analysis(1000, 700, 1000, 500, 4, 1, TRUE)
               [] s = "big" -> Analysis(500, 0, 0, 500, 3, 1, FALSE)
               [] s = "flaky" -> Analysis(1000, 700, 1000, 500, 0, 0, TRUE)
               [] OTHER -> [ok |-> FALSE])

\* duration of the provider call, in ms
Elapsed(s, m) ==
    CASE s = "big" /\ m = "size" -> 2
      [] OTHER -> 1

\* the lambda stored in tasks[m] (main, lines 229-239)
Provider(m, url, url_type, e, lat) ==
    CASE m = "size" -> get_size_score(url, url_type, e, lat)
      [] m = "license" -> get_license_score(url, url_type, e, lat)
      [] m = "performance_claims" -> get_performance_claims(url, url_type, e, lat)
      [] m = "bus_factor" -> get_bus_factor(url, url_type, e, lat)
      [] m = "ramp_up" -> get_ramp_up(url, url_type, e, lat)
      [] m = "dataset_quality" -> get_dataset_quality_score(url, url_type, e, lat)
      [] m = "dataset_and_code_score" -> get_dataset_and_code_score(url, url_type, e, lat)
      [] m = "code_quality" -> get_code_quality(url, url_type, e, lat)

\* tasks in which a model is also given the dataset-only metrics
TaskOrder_all_for_model(url_type) ==
    CASE url_type = "code" -> <<"code_quality">>
      [] url_type = "dataset" -> <<"dataset_quality", "dataset_and_code_score">>
      [] url_type = "model" -> <<"size", "license", "performance_claims",
                                 "bus_factor", "ramp_up", "dataset_quality",
                                 "dataset_and_code_score">>
      [] OTHER -> <<>>

\* the keys of tasks for a URL of the given kind, in insertion order
\* (main, lines 228-239)
TaskOrder(url_type) ==
    CASE url_type = "code" -> <<"code_quality">>
      [] url_type = "dataset" -> <<"dataset_quality", "dataset_and_code_score">>
      [] url_type = "model" -> <<"size", "license", "performance_claims",
                                 "bus_factor", "ramp_up">>
      [] OTHER -> <<>>

TasksFor(url_type) == {TaskOrder(url_type)[i] : i \in 1..Len(TaskOrder(url_type))}

\* ------------------------------------------------------------ input file
\* read_urls: the non-blank, non-comment lines, each a non-empty list of URLs
RECURSIVE SeqsUpTo(_, _)
SeqsUpTo(S, n) ==
    IF n = 0 THEN {<<>>}
    ELSE LET shorter == SeqsUpTo(S, n - 1)
         IN  shorter \cup {Append(q, x) : q \in {r \in shorter : Len(r) = n - 1}, x \in S}

\* the lines of the input files: one URL, or the URLs of a code repository,
\* a dataset and a model in that order
AllLines == {<<U_model>>, <<U_model_short>>, <<U_dataset>>, <<U_space>>, <<U_code>>,
             <<U_ftp>>,
             <<U_code, U_model>>, <<U_dataset, U_model>>,
             <<U_code, U_dataset, U_model>>}
InputLines == {l \in AllLines : Len(l) <= MaxUrls}
InputFiles == SeqsUpTo(InputLines, MaxLines)

\* main, lines 136-174: line_classifications is a dict url -> type of the
\* URLs of the line that are not "unknown", in first-insertion order
RECURSIVE ClassifyLine(_)
ClassifyLine(urls) ==
    IF urls = <<>> THEN <<>>
    ELSE LET n == Len(urls)
             front == ClassifyLine(SubSeq(urls, 1, n - 1))
             url == urls[n]
             t == classify_url(url)
         IN  IF t = "unknown" \/ \E i \in 1..Len(front) : front[i].url = url
             THEN front
             ELSE Append(front, [url |-> url, type |-> t])

\* ---------------------------------------------------------------- records
DefaultSize == [t \in Tiers |-> 0]
NoKeys == [t \in {} |-> 0]

\* the all-default row printed for an empty line and by the except branch
DefaultRecord ==
    [name |-> "", category |-> "", net_score |-> 0, net_score_latency |-> 0,
     score |-> [m \in ScalarMetrics |-> 0],
     latency |-> [m \in Metrics |-> 0],
     size_score |-> DefaultSize]

\* weights of the net score, in hundredths
Weight(m) ==
    CASE m \in {"size", "license", "dataset_quality", "performance_claims"} -> 15
      [] OTHER -> 10

\* a net score whose weights are renormalised over the metrics that are not 0
NetScore_renormalised(sd, sc) ==
    LET n == IF Truthy(sd) THEN Cardinality(DOMAIN sd.m) ELSE 1
        total == IF Truthy(sd) THEN SumOver(sd.m, DOMAIN sd.m) ELSE 0
        rest == SumOver([m \in ScalarMetrics |-> Weight(m) * sc[m].v], ScalarMetrics)
        present == SumOver([m \in ScalarMetrics |->
                              IF sc[m].v # 0 THEN Weight(m) ELSE 0], ScalarMetrics)
                   + (IF total # 0 THEN Weight("size") ELSE 0)
    IN  IF present = 0 THEN 0
        ELSE RoundDiv(100 * (Weight("size") * total + n * rest), present * n * 1000)

\* main, lines 296-308, then round(net_score, 2): the net score in hundredths.
\* size_score = sum(size_dict.values()) / len(size_dict) when size_dict is
\* truthy, else 0.0
NetScore(sd, sc) ==
    LET n == IF Truthy(sd) THEN Cardinality(DOMAIN sd.m) ELSE 1
        total == IF Truthy(sd) THEN SumOver(sd.m, DOMAIN sd.m) ELSE 0
        rest == SumOver([m \in ScalarMetrics |-> Weight(m) * sc[m].v], ScalarMetrics)
    IN  RoundDiv(Weight("size") * total + n * rest, n * 1000)

\* main, lines 314-335
BuildRecord(nm, cat, sd, sc, lt, net_latency) ==
    [name |-> nm, category |-> cat,
     net_score |-> NetScore(sd, sc),
     net_score_latency |-> net_latency,
     score |-> [m \in ScalarMetrics |-> Round2(sc[m].v)],
     latency |-> lt,
     size_score |-> IF Truthy(sd) THEN [t \in DOMAIN sd.m |-> Round2(sd.m[t])]
                    ELSE NoKeys]

\* arithmetic or round() on a score that is no number raises TypeError inside
\* the try of main, and so does .values() on a truthy size_dict that is no
\* dict (AttributeError)
ScoringRaises(sd, sc) ==
    \/ \E m \in ScalarMetrics : sc[m].k # "num"
    \/ Truthy(sd) /\ sd.k # "map"

\* ------------------------------------------------------------------ state
VARIABLES
    file,             \* the lines read_urls returned
    classifications,  \* per line, the classified URLs
    pc,               \* where main is
    li,               \* number of lines whose scoring has begun
    ui,               \* number of URLs of the current line whose pool was opened
    name, category,   \* locals of main
    scores,           \* the locals ramp_up, bus_factor, ..., by metric name
    latency,          \* the locals <metric>_latency
    size_dict,        \* the local size_dict
    start_time,       \* start_time of the current line
    futures,          \* the futures of the current ThreadPoolExecutor
    world,            \* the scenario the outside world is in during the run
    now,              \* time.time(), in ms
    out,              \* the rows printed on stdout
    exit_status,      \* exit status of the process, -1 while it runs
    ran,              \* history: the futures of the pools closed for this line
    routine,          \* the library routine run on its own, "none" inside main
    input,            \* the arguments that routine was called with
    frame,            \* the local variables of that routine
    returned,         \* what that routine returned
    tempdirs          \* the directories under the temporary directory

\* the variables of main
mainvars == <<file, classifications, pc, li, ui, name, category, scores, latency,
              size_dict, start_time, futures, world, now, out, exit_status, ran>>

\* the variables of a library routine run on its own
lib == <<routine, input, frame, returned, tempdirs>>

vars == <<mainvars, lib>>

\* no library routine is run on its own
NoCall == [k |-> "none"]

\* number of cloning invocations run side by side
MaxCalls == 2

\* directory names tempfile.mkdtemp can come up with
DirNames == 1..MaxCalls

\* a name under which no directory exists; a directory records the invocation
\* that made it (by) and the invocations that wrote into it (users)
NoDir == [by |-> 0, users |-> {}]

\* a future: its state, the time of its submission (sub), the time a worker
\* started it (t0) and what the call produced (res)
NoFuture == [st |-> "none", sub |-> 0, t0 |-> 0, res |-> NoRes]
NoFutures == [m \in Metrics |-> NoFuture]

Submitted == {m \in Metrics : futures[m].st # "none"}
Running == {m \in Metrics : futures[m].st = "running"}

Line == classifications[li]
CurUrl == Line[ui].url
CurType == Line[ui].type

\* the submitted tasks no worker has taken yet; the first of them
Queued == {m \in Metrics : futures[m].st = "pending"}
QueueHead ==
    LET order == TaskOrder(CurType)
    IN  IF Queued = {} THEN "none"
        ELSE order[CHOOSE i \in 1..Len(order) :
                      /\ order[i] \in Queued
                      /\ \A j \in 1..(i - 1) : order[j] \notin Queued]

\* a worker is idle while work is queued
WorkerIdle == Queued # {} /\ Cardinality(Running) < MAX_WORKERS

\* the time at which the provider call of a running task ends
Deadline(m) == futures[m].t0 + Elapsed(world, m)

Init ==
    /\ file \in InputFiles
    /\ classifications = <<>>
    /\ pc = "classify"
    /\ li = 0
    /\ ui = 0
    /\ name = ""
    /\ category = ""
    /\ scores = [m \in ScalarMetrics |-> Num(0)]
    /\ latency = [m \in Metrics |-> 0]
    /\ size_dict = Map(DefaultSize)
    /\ start_time = 0
    /\ futures = NoFutures
    /\ world \in SCENARIOS
    /\ now = 0
    /\ out = <<>>
    /\ exit_status = -1
    /\ ran = <<>>
    /\ routine = "none"
    /\ input = NoCall
    /\ frame = NoCall
    /\ returned = NoCall
    /\ tempdirs = [d \in DirNames |-> NoDir]

\* main, lines 136-174
Classify ==
    /\ pc = "classify"
    /\ classifications' = [i \in 1..Len(file) |-> ClassifyLine(file[i])]
    /\ pc' = "loop"
    /\ UNCHANGED <<file, li, ui, name, category, scores, latency, size_dict,
                   start_time, futures, world, now, out, exit_status, ran>>
    /\ UNCHANGED lib

\* a loop that starts a line with the values the line before left
StartLine_keeping_values ==
    /\ pc = "loop"
    /\ li < Len(classifications)
    /\ li' = li + 1
    /\ ui' = 0
    /\ start_time' = now
    /\ ran' = <<>>
    /\ pc' = "urls"
    /\ UNCHANGED <<file, classifications, name, category, scores, latency,
                   size_dict, futures, world, now, out, exit_status>>
    /\ UNCHANGED lib

\* main, lines 179-214: next line, every field back to its default
StartLine ==
    /\ pc = "loop"
    /\ li < Len(classifications)
    /\ li' = li + 1
    /\ ui' = 0
    /\ start_time' = now
    /\ name' = ""
    /\ category' = ""
    /\ scores' = [m \in ScalarMetrics |-> Num(0)]
    /\ latency' = [m \in Metrics |-> 0]
    /\ size_dict' = Map(DefaultSize)
    /\ ran' = <<>>
    /\ pc' = "urls"
    /\ UNCHANGED <<file, classifications, futures, world, now, out, exit_status>>
    /\ UNCHANGED lib

\* main, lines 217-242: next URL of the line; name and category; the tasks of
\* its kind are submitted to a new ThreadPoolExecutor
BeginUrl ==
    /\ pc = "urls"
    /\ ui < Len(Line)
    /\ ui' = ui + 1
    /\ LET u == Line[ui + 1]
       IN  /\ name' = NameOf(u.url, u.type)
           /\ category' = Upper(u.type)
           /\ futures' = [m \in Metrics |->
                            IF m \in TasksFor(u.type)
                            THEN [st |-> "pending", sub |-> now, t0 |-> 0, res |-> NoRes]
                            ELSE NoFuture]
    /\ pc' = "pool"
    /\ UNCHANGED <<file, classifications, li, scores, latency, size_dict,
                   start_time, world, now, out, exit_status, ran>>
    /\ UNCHANGED lib

\* a pool that starts a thread for every submitted task
StartTask_unbounded(m) ==
    /\ pc \in {"pool", "unwinding"}
    /\ m = QueueHead
    /\ futures' = [futures EXCEPT ![m].st = "running", ![m].t0 = now]
    /\ UNCHANGED <<file, classifications, pc, li, ui, name, category, scores,
                   latency, size_dict, start_time, world, now, out, exit_status, ran>>
    /\ UNCHANGED lib

\* a worker thread of the pool takes the head of the work queue (the tasks
\* are queued in the order of submission); the provider reads the clock as
\* it starts
StartTask(m) ==
    /\ pc \in {"pool", "unwinding"}
    /\ m = QueueHead
    /\ Cardinality(Running) < MAX_WORKERS
    /\ futures' = [futures EXCEPT ![m].st = "running", ![m].t0 = now]
    /\ UNCHANGED <<file, classifications, pc, li, ui, name, category, scores,
                   latency, size_dict, start_time, world, now, out, exit_status, ran>>
    /\ UNCHANGED lib

\* the provider call of a running task ends (the earliest among the running
\* ones; queued work is taken by an idle worker before time passes): it
\* returns or raises, and the future holds the outcome
FinishTask(m) ==
    /\ pc \in {"pool", "unwinding"}
    /\ futures[m].st = "running"
    /\ ~WorkerIdle
    /\ \A r \in Running : Deadline(m) <= Deadline(r)
    /\ now' = Deadline(m)
    /\ futures' = [futures EXCEPT ![m].st = "done",
                                  ![m].res = Provider(m, CurUrl, CurType, Answer(world, m),
                                                      Deadline(m) - futures[m].t0)]
    /\ UNCHANGED <<file, classifications, pc, li, ui, name, category, scores,
                   latency, size_dict, start_time, world, out, exit_status, ran>>
    /\ UNCHANGED lib

\* a collection that stores the k-th result yielded by as_completed under the
\* k-th key of tasks, instead of under the name the future was submitted with
Collect_by_position(m) ==
    /\ pc = "pool"
    /\ futures[m].st = "done"
    /\ LET res == futures[m].res
           val == IF res.tag = "ret" THEN res.val ELSE Num(0)
           lat == IF res.tag = "ret" THEN res.lat ELSE 0
           k == Cardinality({o \in Metrics : futures[o].st = "taken"}) + 1
           key == TaskOrder(CurType)[k]
       IN  /\ futures' = [futures EXCEPT ![m].st = "taken"]
           /\ IF res.tag = "exit"
              THEN /\ pc' = "unwinding"
                   /\ UNCHANGED <<scores, latency, size_dict>>
              ELSE /\ pc' = pc
                   /\ latency' = [latency EXCEPT ![key] = lat]
                   /\ IF key = "size"
                      THEN size_dict' = val /\ UNCHANGED scores
                      ELSE scores' = [scores EXCEPT ![key] = val] /\ UNCHANGED size_dict
    /\ UNCHANGED <<file, classifications, li, ui, name, category, start_time,
                   world, now, out, exit_status, ran>>
    /\ UNCHANGED lib

\* main, lines 243-265: as_completed yields a finished future; val, lat =
\* fut.result(), (0.0, 0) on any Exception (a raise of the provider, or a
\* result that does not unpack); SystemExit is not an Exception and leaves
\* the loop
Collect(m) ==
    /\ pc = "pool"
    /\ futures[m].st = "done"
    /\ LET res == futures[m].res
           val == IF res.tag = "ret" THEN res.val ELSE Num(0)
           lat == IF res.tag = "ret" THEN res.lat ELSE 0
       IN  /\ futures' = [futures EXCEPT ![m].st = "taken"]
           /\ IF res.tag = "exit"
              THEN /\ pc' = "unwinding"
                   /\ UNCHANGED <<scores, latency, size_dict>>
              ELSE /\ pc' = pc
                   /\ latency' = [latency EXCEPT ![m] = lat]
                   /\ IF m = "size"
                      THEN size_dict' = val /\ UNCHANGED scores
                      ELSE scores' = [scores EXCEPT ![m] = val] /\ UNCHANGED size_dict
    /\ UNCHANGED <<file, classifications, li, ui, name, category, start_time,
                   world, now, out, exit_status, ran>>
    /\ UNCHANGED lib

\* a with-block that is left as soon as one future was handled, the workers
\* still holding the other tasks
EndPool_after_first_result ==
    /\ pc = "pool"
    /\ \E m \in Submitted : futures[m].st = "taken"
    /\ ran' = Append(ran, futures)
    /\ pc' = "urls"
    /\ UNCHANGED <<file, classifications, li, ui, name, category, scores,
                   latency, size_dict, start_time, futures, world, now, out,
                   exit_status>>
    /\ UNCHANGED lib

\* the with-block of the executor ends once every future was handled
EndPool ==
    /\ pc = "pool"
    /\ \A m \in Submitted : futures[m].st = "taken"
    /\ ran' = Append(ran, futures)
    /\ pc' = "urls"
    /\ UNCHANGED <<file, classifications, li, ui, name, category, scores,
                   latency, size_dict, start_time, futures, world, now, out,
                   exit_status>>
    /\ UNCHANGED lib

\* a loop that goes on to the next line without printing a row
Emit_nothing ==
    /\ pc = "urls"
    /\ ui = Len(Line)
    /\ pc' = "loop"
    /\ UNCHANGED <<file, classifications, li, ui, name, category, scores,
                   latency, size_dict, start_time, futures, world, now, out,
                   exit_status, ran>>
    /\ UNCHANGED lib

\* main, lines 267-355: the row of the line is printed: the default row for
\* a line with no recognised URL, the default row from the except branch when
\* the arithmetic raises, the computed row otherwise
Emit ==
    /\ pc = "urls"
    /\ ui = Len(Line)
    /\ LET via == IF Len(Line) = 0 THEN "empty"
                  ELSE IF ScoringRaises(size_dict, scores) THEN "except" ELSE "computed"
           rec == IF via = "computed"
                  THEN BuildRecord(name, category, size_dict, scores, latency,
                                   now - start_time)
                  ELSE DefaultRecord
       IN  out' = Append(out, [line |-> li, via |-> via, rec |-> rec])
    /\ pc' = "loop"
    /\ UNCHANGED <<file, classifications, li, ui, name, category, scores,
                   latency, size_dict, start_time, futures, world, now,
                   exit_status, ran>>
    /\ UNCHANGED lib

\* SystemExit leaves the with-block after shutdown(wait=True), passes the
\* except Exception of main and ends the process with status 1
Unwind ==
    /\ pc = "unwinding"
    /\ \A m \in Submitted : futures[m].st \in {"done", "taken"}
    /\ pc' = "exited"
    /\ exit_status' = 1
    /\ UNCHANGED <<file, classifications, li, ui, name, category, scores,
                   latency, size_dict, start_time, futures, world, now, out, ran>>
    /\ UNCHANGED lib

\* main, lines 358-360: exit(0) after the last line
Finish ==
    /\ pc = "loop"
    /\ li = Len(classifications)
    /\ pc' = "done"
    /\ exit_status' = 0
    /\ UNCHANGED <<file, classifications, li, ui, name, category, scores,
                   latency, size_dict, start_time, futures, world, now, out, ran>>
    /\ UNCHANGED lib

Next ==
    \/ Classify
    \/ StartLine
    \/ BeginUrl
    \/ \E m \in Metrics : StartTask(m)
    \/ \E m \in Metrics : FinishTask(m)
    \/ \E m \in Metrics : Collect(m)
    \/ EndPool
    \/ Emit
    \/ Unwind
    \/ Finish

Spec == Init /\ [][Next]_vars

\* -------------------------------------------- the Dispatcher on its own
\* main, lines 241-265 and 296-335, with the providers replaced by what a
\* submitted callable can hand to fut.result(): a pair with a value (a number,
\* a mapping for size) or with None, an Exception, or SystemExit
StubOutcomes(m) ==
    IF m = "size"
    THEN {Ret(Map([t \in Tiers |-> 500]), 1), Ret(None, 1), Raise}
    ELSE {Ret(Num(500), 1), Ret(None, 1), Raise, SysExit}

\* the call of a running task ends with one of these outcomes
FinishStub(m) ==
    /\ pc \in {"pool", "unwinding"}
    /\ futures[m].st = "running"
    /\ ~WorkerIdle
    /\ \A r \in Running : Deadline(m) <= Deadline(r)
    /\ now' = Deadline(m)
    /\ \E r \in StubOutcomes(m) :
          futures' = [futures EXCEPT ![m].st = "done", ![m].res = r]
    /\ UNCHANGED <<file, classifications, pc, li, ui, name, category, scores,
                   latency, size_dict, start_time, world, out, exit_status, ran>>
    /\ UNCHANGED lib

\* one input line with one URL
InitDispatch ==
    /\ Init
    /\ Len(file) = 1
    /\ Len(file[1]) = 1
    /\ world = "up"

NextDispatch ==
    \/ Classify
    \/ StartLine
    \/ BeginUrl
    \/ \E m \in Metrics : StartTask(m)
    \/ \E m \in Metrics : FinishStub(m)
    \/ \E m \in Metrics : Collect(m)
    \/ EndPool
    \/ Emit
    \/ Unwind
    \/ Finish

SpecDispatch == InitDispatch /\ [][NextDispatch]_vars

\* ============================================================= properties
\* main has finished with line li: its row is printed, or the process ended
LineOver == li > 0 /\ pc \in {"loop", "done", "exited"}

\* the pools of futures opened for line li, the one a SystemExit left included
LinePools == IF pc = "exited" THEN Append(ran, futures) ELSE ran

\* the rows printed for line l
Rows(l) == {i \in 1..Len(out) : out[i].line = l}

\* the task of metric m in pool p raised (an Exception or SystemExit)
Failed(p, m) == p[m].st # "none" /\ p[m].res.tag \in {"raise", "exit"}

\* the task of metric m in pool p returned a pair whose value is None
ReturnedNone(p, m) ==
    p[m].st # "none" /\ p[m].res.tag = "ret" /\ p[m].res.val.k = "none"

RanIn(ps, m) == \E k \in 1..Len(ps) : ps[k][m].st # "none"

\* the value the providers actually computed for metric m on the line: the
\* number returned by its last task, 0 when no task returned a number
PoolVal(ps, m) ==
    LET K == {k \in 1..Len(ps) : /\ ps[k][m].st # "none"
                                 /\ ps[k][m].res.tag = "ret"
                                 /\ ps[k][m].res.val.k = "num"}
    IN  IF K = {} THEN 0
        ELSE ps[CHOOSE k \in K : \A j \in K : j <= k][m].res.val.v

\* the tier scores the size provider actually computed on the line
PoolSize(ps) ==
    LET K == {k \in 1..Len(ps) : /\ ps[k]["size"].st # "none"
                                 /\ ps[k]["size"].res.tag = "ret"
                                 /\ ps[k]["size"].res.val.k = "map"}
    IN  IF K = {} THEN DefaultSize
        ELSE ps[CHOOSE k \in K : \A j \in K : j <= k]["size"].res.val.m

PoolVals(ps) == [m \in ScalarMetrics |-> PoolVal(ps, m)]

\* 0.15 size + 0.15 license + 0.10 ramp_up + 0.10 bus_factor
\* + 0.15 dataset_quality + 0.10 code_quality + 0.15 performance_claims
\* + 0.10 dataset_and_code, size the mean of the four tiers; values in
\* thousandths, the result rounded to hundredths
FixedWeightNet(tiers, v) ==
    RoundDiv(15 * (tiers["raspberry_pi"] + tiers["jetson_nano"]
                   + tiers["desktop_pc"] + tiers["aws_server"])
             + 4 * (15 * v["license"] + 10 * v["ramp_up"] + 10 * v["bus_factor"]
                    + 15 * v["dataset_quality"] + 10 * v["code_quality"]
                    + 15 * v["performance_claims"]
                    + 10 * v["dataset_and_code_score"]),
             4000)

\* C1: if a metric task of a line raised, then once main is past the line a
\* row was printed for it in which the failed metric is 0, every other
\* metric has the value its provider returned, and the net score is the
\* fixed-weight sum of those values.
C1_FailedTaskStillScored ==
    LineOver =>
        \A k \in 1..Len(LinePools) : \A m \in Metrics :
            Failed(LinePools[k], m) =>
                /\ Rows(li) # {}
                /\ \A i \in Rows(li) :
                     LET rec == out[i].rec
                     IN  /\ IF m = "size"
                            THEN rec.size_score = DefaultSize
                            ELSE rec.score[m] = 0
                         /\ \A o \in ScalarMetrics \ {m} :
                               rec.score[o] = Round2(PoolVal(LinePools, o))
                         /\ m # "size" =>
                               rec.size_score =
                                  [t \in Tiers |-> Round2(PoolSize(LinePools)[t])]
                         /\ rec.net_score =
                               FixedWeightNet(PoolSize(LinePools), PoolVals(LinePools))

\* C2: when the run is over, one row was printed for each line of the input
\* file, in order, and the exit status is 0.
C2_OneRowPerLineThenExitZero ==
    pc \in {"done", "exited"} =>
        /\ exit_status = 0
        /\ Len(out) = Len(file)
        /\ \A i \in 1..Len(out) : out[i].line = i

C4_ScoresInUnitInterval ==
    \A i \in 1..Len(out) :
        LET rec == out[i].rec
        IN  /\ rec.net_score \in 0..100
            /\ \A m \in DOMAIN rec.score : rec.score[m] \in 0..100
            /\ \A t \in DOMAIN rec.size_score : rec.size_score[t] \in 0..100
            /\ rec.net_score_latency \in Nat
            /\ \A m \in DOMAIN rec.latency : rec.latency[m] \in Nat

\* a computed row with a top score (1.0), a floor tier score (0.0) next to a
\* tier score strictly between, and positive latencies
C4_Witness ==
    \E i \in 1..Len(out) :
        LET rec == out[i].rec
        IN  /\ out[i].via = "computed"
            /\ rec.size_score["raspberry_pi"] = 0
            /\ rec.size_score["desktop_pc"] \in 1..99
            /\ \E m \in ScalarMetrics : rec.score[m] = 100
            /\ rec.net_score \in 1..99
            /\ rec.latency["size"] > 0
            /\ rec.net_score_latency > 0

\* the row of line li was just printed
RowPrinted == pc = "loop" /\ li > 0 /\ Rows(li) # {}

KindTasks(url_type) ==
    CASE url_type = "model" -> {"size", "license", "performance_claims",
                                "bus_factor", "ramp_up"}
      [] url_type = "dataset" -> {"dataset_quality", "dataset_and_code_score"}
      [] url_type = "code" -> {"code_quality"}
      [] OTHER -> {}

\* metric m has its default value and latency in the row
IsDefaultIn(rec, m) ==
    /\ IF m = "size" THEN rec.size_score = DefaultSize ELSE rec.score[m] = 0
    /\ rec.latency[m] = 0

\* the last classified URL of the line, whose name and category the row bears
LastOfLine == Line[Len(Line)]

SeqOutcome(cls, m) ==
    LET K == {k \in 1..Len(cls) : m \in KindTasks(cls[k].type)}
    IN  IF K = {} THEN NoRes
        ELSE LET k == CHOOSE x \in K : \A j \in K : j <= x
             IN  Provider(m, cls[k].url, cls[k].type, Answer(world, m),
                          Elapsed(world, m))

SeqVal(cls, m) ==
    LET r == SeqOutcome(cls, m)
    IN  IF r.tag = "ret" THEN r.val
        ELSE IF r.tag = "nil" /\ m = "size" THEN Map(DefaultSize)
        ELSE Num(0)

SeqLat(cls, m) ==
    LET r == SeqOutcome(cls, m)
    IN  IF r.tag = "ret" THEN r.lat ELSE 0

\* C7: the row printed for a line (name, category, every metric value, every
\* metric latency, the net score) is the one obtained from the outcomes of
\* its tasks taken by name, whatever the order in which the tasks of a pool
\* completed and were collected.
C7_RowIndependentOfCompletionOrder ==
    (RowPrinted /\ Len(Line) > 0) =>
        \A i \in Rows(li) :
            LET sd == SeqVal(Line, "size")
                sc == [m \in ScalarMetrics |-> SeqVal(Line, m)]
                lt == [m \in Metrics |-> SeqLat(Line, m)]
            IN  out[i].rec =
                   IF ScoringRaises(sd, sc) THEN DefaultRecord
                   ELSE BuildRecord(NameOf(LastOfLine.url, LastOfLine.type),
                                    Upper(LastOfLine.type), sd, sc, lt,
                                    out[i].rec.net_score_latency)

\* a model whose size task, submitted first, completed after the license
\* task, and whose fifth task waited for a worker
C7_Witness ==
    /\ RowPrinted
    /\ \E i \in Rows(li) :
          /\ out[i].via = "computed"
          /\ out[i].rec.category = "MODEL"
          /\ out[i].rec.latency["size"] > out[i].rec.latency["license"]
          /\ out[i].rec.latency["license"] > 0
    /\ futures["ramp_up"].st = "taken"
    /\ futures["ramp_up"].t0 > futures["ramp_up"].sub

\* C8: when a provider returned None as its score, the row of the line has 0
\* for that metric, the name and category computed for the resource, and the
\* values the other providers returned.
C8_NoneKeepsRestOfRow ==
    RowPrinted =>
        \A k \in 1..Len(ran) : \A m \in Metrics :
            ReturnedNone(ran[k], m) =>
                \A i \in Rows(li) :
                    LET rec == out[i].rec
                    IN  /\ IF m = "size" THEN rec.size_score = DefaultSize
                           ELSE rec.score[m] = 0
                        /\ rec.name = NameOf(LastOfLine.url, LastOfLine.type)
                        /\ rec.category = Upper(LastOfLine.type)
                        /\ \A o \in ScalarMetrics \ {m} :
                              ~ReturnedNone(ran[k], o) =>
                                  rec.score[o] = Round2(PoolVal(ran, o))
                        /\ m # "size" =>
                              rec.size_score =
                                 [t \in Tiers |-> Round2(PoolSize(ran)[t])]

\* C9: when a task failed (it raised, or its result is no pair), main holds
\* for that metric the value 0.0 and the time from the submission of the task
\* to its failure.
C9_FailureKeepsMeasuredLatency ==
    \A m \in Metrics :
        ( /\ pc = "pool"
          /\ futures[m].st = "taken"
          /\ futures[m].res.tag \in {"raise", "bare"} )
        => /\ IF m = "size" THEN size_dict = Num(0) ELSE scores[m] = Num(0)
           /\ latency[m] = Deadline(m) - futures[m].sub

\* C10: every provider call ends by returning a pair (value, latency) with a
\* non-negative latency, the value being the neutral default 0.0 when the
\* fetch, clone or analysis behind the metric failed; it never raises or
\* exits.
C10_ProviderReturnsPair ==
    \A m \in Metrics :
        futures[m].st \in {"done", "taken"} =>
            /\ futures[m].res.tag = "ret"
            /\ futures[m].res.lat \in Nat
            /\ (m # "size" /\ ~Answer(world, m).ok) => futures[m].res.val = Num(0)

\* get_repo_id gives no identifier for the classified URL u
Unresolvable(u) == get_repo_id(u.url, u.type).k # "id"

\* every score of the row is the default 0
AllScoresDefault(rec) ==
    /\ rec.net_score = 0
    /\ \A m \in ScalarMetrics : rec.score[m] = 0
    /\ rec.size_score = DefaultSize

\* the row of a line scored on its own, with net score latency nl
RowAlone(cls, nl) ==
    LET sd == SeqVal(cls, "size")
        sc == [m \in ScalarMetrics |-> SeqVal(cls, m)]
        lt == [m \in Metrics |-> SeqLat(cls, m)]
        u == cls[Len(cls)]
    IN  IF ScoringRaises(sd, sc) THEN DefaultRecord
        ELSE BuildRecord(NameOf(u.url, u.type), Upper(u.type), sd, sc, lt, nl)

\* C11: for an input of two resources (two lines of one classified URL), one
\* of them with an identifier that does not resolve, the finished run has
\* printed exactly two rows; the row of an unresolvable resource has every
\* score at 0, and the row of a resolvable one is the row it gets when scored
\* alone.
C11_TwoResourcesTwoRows ==
    ( /\ pc \in {"done", "exited"}
      /\ Len(classifications) = 2
      /\ \A i \in 1..2 : Len(classifications[i]) = 1
      /\ \E i \in 1..2 : Unresolvable(classifications[i][1]) )
    => /\ Len(out) = 2
       /\ \A i \in 1..2 :
             IF Unresolvable(classifications[i][1])
             THEN AllScoresDefault(out[i].rec)
             ELSE out[i].rec = RowAlone(classifications[i],
                                        out[i].rec.net_score_latency)

\* ------------------------------------------ BusFactor: removal simulation
\* get_bus_factor, lines 253-256, called on its own: the owner sets of the
\* files go through _compute_bus_factor and _normalize_score.  Files are
\* 1..n, authors are 1..MaxAuthors.
MaxFiles == 3
MaxAuthors == 3

Authors == 1..MaxAuthors

\* the authors_of_file dicts the simulation is run on
OwnerMaps == UNION {[1..n -> SUBSET Authors] : n \in 0..MaxFiles}

\* the main program is not running
MainIdle ==
    /\ file = <<>>
    /\ classifications = <<>>
    /\ pc = "library"
    /\ li = 0
    /\ ui = 0
    /\ name = ""
    /\ category = ""
    /\ scores = [m \in ScalarMetrics |-> Num(0)]
    /\ latency = [m \in Metrics |-> 0]
    /\ size_dict = Map(DefaultSize)
    /\ start_time = 0
    /\ futures = NoFutures
    /\ world = "up"
    /\ now = 0
    /\ out = <<>>
    /\ exit_status = -1
    /\ ran = <<>>

\* set().union(*authors_of_file.values())
AllOwners(authors_of_file) == UNION {authors_of_file[f] : f \in DOMAIN authors_of_file}

\* an abandoned set rebuilt from the removed authors alone
recompute_abandoned_from_scratch(authors_of_file, abandoned, current_removed) ==
    {f \in DOMAIN authors_of_file :
        /\ authors_of_file[f] # {}
        /\ authors_of_file[f] \subseteq current_removed}

\* recompute_abandoned, lines 203-210
recompute_abandoned(authors_of_file, abandoned, current_removed) ==
    abandoned \cup {f \in DOMAIN authors_of_file :
                        /\ f \notin abandoned
                        /\ authors_of_file[f] # {}
                        /\ authors_of_file[f] \subseteq current_removed}

\* coverage[a], line 218: sum(1 for f in files if a in authors_of_file[f])
Coverage(authors_of_file, a) ==
    Cardinality({f \in DOMAIN authors_of_file : a \in authors_of_file[f]})

\* any active author can be removed next
TopAuthors_any(authors_of_file, active_authors) == active_authors

\* line 219: max(coverage.items(), key=...) is the first item of maximum
\* coverage in the iteration order of the set active_authors, which the
\* language leaves open: every author of maximum coverage can be the one
TopAuthors(authors_of_file, active_authors) ==
    {a \in active_authors :
        \A b \in active_authors :
            Coverage(authors_of_file, a) >= Coverage(authors_of_file, b)}

\* line 213: len(abandoned) > 0.5 * len(files)
MajorityAbandoned(authors_of_file, abandoned) ==
    2 * Cardinality(abandoned) > Len(authors_of_file)

BusFactorResult(n, removed) == [k |-> "bus_factor", val |-> n, removed |-> removed]
ScoreResult(x) == [k |-> "score", val |-> x]

\* the caller's frame once _compute_bus_factor has returned bf (line 254)
AfterCompute(authors_of_file, bf) ==
    [k |-> "get_bus_factor", authors_of_file |-> authors_of_file, bf |-> bf]

InitBus ==
    /\ MainIdle
    /\ routine = "get_bus_factor"
    /\ input \in {[k |-> "owners", authors_of_file |-> o] : o \in OwnerMaps}
    /\ frame = NoCall
    /\ returned = NoCall
    /\ tempdirs = [d \in DirNames |-> NoDir]

\* _compute_bus_factor, lines 195-211: up to the loop
EnterComputeBusFactor ==
    /\ routine \in {"get_bus_factor", "_compute_bus_factor"}
    /\ input.k = "owners"
    /\ frame = NoCall
    /\ returned = NoCall
    /\ LET aof == input.authors_of_file
       IN  IF Len(aof) = 0
           THEN /\ returned' = BusFactorResult(0, <<>>)
                /\ frame' = AfterCompute(aof, 0)
           ELSE /\ frame' = [k |-> "_compute_bus_factor",
                             authors_of_file |-> aof,
                             abandoned |-> {f \in DOMAIN aof : aof[f] = {}},
                             removed |-> <<>>,
                             active_authors |-> AllOwners(aof),
                             current_removed |-> {}]
                /\ returned' = returned
    /\ UNCHANGED <<routine, input, tempdirs>>
    /\ UNCHANGED mainvars

\* _compute_bus_factor, lines 212-223: one turn of the while loop
RemovalIteration ==
    /\ frame.k = "_compute_bus_factor"
    /\ LET aof == frame.authors_of_file
       IN  IF \/ MajorityAbandoned(aof, frame.abandoned)
              \/ frame.active_authors = {}
           THEN /\ returned' = BusFactorResult(Len(frame.removed), frame.removed)
                /\ frame' = AfterCompute(aof, Len(frame.removed))
           ELSE \E top_author \in TopAuthors(aof, frame.active_authors) :
                    /\ frame' = [frame EXCEPT
                          !.removed = Append(@, top_author),
                          !.current_removed = @ \cup {top_author},
                          !.active_authors = @ \ {top_author},
                          !.abandoned = recompute_abandoned(aof, @,
                                  frame.current_removed \cup {top_author})]
                    /\ returned' = returned
    /\ UNCHANGED <<routine, input, tempdirs>>
    /\ UNCHANGED mainvars

\* get_bus_factor, lines 255-256: score = _normalize_score(bf, authors_of_file)
NormalizeScore ==
    /\ routine = "get_bus_factor"
    /\ frame.k = "get_bus_factor"
    /\ returned' = ScoreResult(_normalize_score(frame.bf,
                        Cardinality(AllOwners(frame.authors_of_file))))
    /\ frame' = NoCall
    /\ routine' = "returned"
    /\ UNCHANGED <<input, tempdirs>>
    /\ UNCHANGED mainvars

NextBus ==
    \/ EnterComputeBusFactor
    \/ RemovalIteration
    \/ NormalizeScore

SpecBus == InitBus /\ [][NextBus]_vars

\* C12: for a history of a single file owned by a single author, the score
\* get_bus_factor derives (raw bus factor of the removal simulation over the
\* number of distinct owning authors) is 0.
C12_SingleFileSingleOwnerScoresZero ==
    ( /\ returned.k = "score"
      /\ Len(input.authors_of_file) = 1
      /\ Cardinality(input.authors_of_file[1]) = 1 )
    => returned.val = 0

\* the set of the elements of a list
Range(q) == {q[i] : i \in DOMAIN q}

\* how many files that are not abandoned the author a owns
OwnedNotAbandoned(authors_of_file, abandoned, a) ==
    Cardinality({f \in DOMAIN authors_of_file : f \notin abandoned /\ a \in authors_of_file[f]})

\* C18: every turn of the removal loop either stops, exactly when more than
\* half of the files are abandoned or no owning author remains, and then
\* returns the number of removals made; or removes one more author, who owns
\* the largest number of the not abandoned files among the authors not yet
\* removed, after which the abandoned files are exactly the files whose owner
\* set is a subset of the removed authors.
C18_RemovalLoop ==
    [][ frame.k = "_compute_bus_factor" =>
          LET aof == frame.authors_of_file
              remaining == AllOwners(aof) \ Range(frame.removed)
          IN  IF \/ 2 * Cardinality(frame.abandoned) > Len(aof)
                 \/ remaining = {}
              THEN /\ frame'.k # "_compute_bus_factor"
                   /\ returned'.k = "bus_factor"
                   /\ returned'.val = Len(frame.removed)
              ELSE /\ frame'.k = "_compute_bus_factor"
                   /\ Len(frame'.removed) = Len(frame.removed) + 1
                   /\ \E a \in remaining :
                        /\ frame'.removed = Append(frame.removed, a)
                        /\ \A b \in remaining :
                              OwnedNotAbandoned(aof, frame.abandoned, a)
                                  >= OwnedNotAbandoned(aof, frame.abandoned, b)
                   /\ frame'.abandoned =
                          {f \in DOMAIN aof : aof[f] \subseteq Range(frame'.removed)}
      ]_vars

\* a simulation that removed two authors, abandoned a file on the way and
\* returned
C18_Witness ==
    /\ returned.k = "bus_factor"
    /\ returned.val = 2
    /\ \E f \in DOMAIN input.authors_of_file :
          /\ input.authors_of_file[f] # {}
          /\ input.authors_of_file[f] \subseteq Range(returned.removed)

\* the least author of a non-empty set
Least(S) == CHOOSE a \in S : \A b \in S : a <= b

\* the raw bus factor when every tie is settled for the least author
RECURSIVE BusFactorLeastFirst(_, _, _)
BusFactorLeastFirst(authors_of_file, abandoned, current_removed) ==
    LET active == AllOwners(authors_of_file) \ current_removed
    IN  IF MajorityAbandoned(authors_of_file, abandoned) \/ active = {}
        THEN Cardinality(current_removed)
        ELSE LET top == Least(TopAuthors(authors_of_file, active))
             IN  BusFactorLeastFirst(authors_of_file,
                     recompute_abandoned(authors_of_file, abandoned,
                                         current_removed \cup {top}),
                     current_removed \cup {top})

\* C19: the raw bus factor _compute_bus_factor returns for a map of owner
\* sets does not depend on which author of maximum coverage is picked: it is
\* the value obtained when every tie goes to the least author.
C19_TiePickDoesNotMatter ==
    returned.k = "bus_factor" =>
        returned.val = BusFactorLeastFirst(input.authors_of_file,
                           {f \in DOMAIN input.authors_of_file :
                                input.authors_of_file[f] = {}},
                           {})

CloningRoutines ==
    {"get_bus_factor", "get_ramp_up", "_check_code_repo_quality",
     "_check_code_repo_performance"}

\* what an invocation meets: the clone fails, the analysis of the clone
\* raises, or both complete
Courses == {"clone_fails", "analysis_raises", "completes"}

\* how the invocation ends: get_bus_factor and get_ramp_up catch every
\* Exception and return; _check_code_repo_quality answers a failed clone with
\* exit(1) and lets an exception of the analysis through;
\* _check_code_repo_performance returns 0.0 on a failed clone and lets an
\* exception of the analysis through
Leaves(fn, course) ==
    CASE fn \in {"get_bus_factor", "get_ramp_up"} -> "return"
      [] fn = "_check_code_repo_quality" ->
            (CASE course = "clone_fails" -> "exit"
               [] course = "analysis_raises" -> "raise"
               [] OTHER -> "return")
      [] fn = "_check_code_repo_performance" ->
            (IF course = "analysis_raises" THEN "raise" ELSE "return")

CallSeqs == SeqsUpTo([fn : CloningRoutines, course : Courses], MaxCalls) \ {<<>>}

\* tempfile.mkdtemp(): a new directory under a name that does not exist
mkdtemp(dirs, d, i) == [dirs EXCEPT ![d] = [by |-> i, users |-> {}]]

\* the finally clause does not touch the directory
rmtree_nothing(dirs, d) == dirs

\* shutil.rmtree(temp_dir, ignore_errors=True)
rmtree(dirs, d) == [dirs EXCEPT ![d] = NoDir]

InitScratch ==
    /\ MainIdle
    /\ routine = "cloning"
    /\ input \in {[k |-> "calls", calls |-> c] : c \in CallSeqs}
    /\ frame = [k |-> "calls",
                at |-> [i \in 1..Len(input.calls) |-> [pc |-> "call", temp_dir |-> 0]]]
    /\ returned = [k |-> "calls", how |-> [i \in 1..Len(input.calls) |-> "running"]]
    /\ tempdirs = [d \in DirNames |-> NoDir]

\* temp_dir = tempfile.mkdtemp()
Mkdtemp(i) ==
    /\ frame.k = "calls"
    /\ frame.at[i].pc = "call"
    /\ \E d \in DirNames :
          /\ tempdirs[d] = NoDir
          /\ tempdirs' = mkdtemp(tempdirs, d, i)
          /\ frame' = [frame EXCEPT !.at[i] = [pc |-> "try", temp_dir |-> d]]
    /\ UNCHANGED <<routine, input, returned>>
    /\ UNCHANGED mainvars

\* Repo.clone_from(clone_url, temp_dir, ...): writes into temp_dir, and raises
\* when the clone fails
CloneFrom(i) ==
    /\ frame.k = "calls"
    /\ frame.at[i].pc = "try"
    /\ tempdirs' = [tempdirs EXCEPT ![frame.at[i].temp_dir].users = @ \cup {i}]
    /\ frame' = [frame EXCEPT !.at[i].pc =
                    IF input.calls[i].course = "clone_fails" THEN "finally" ELSE "analyse"]
    /\ UNCHANGED <<routine, input, returned>>
    /\ UNCHANGED mainvars

\* the rest of the try block: the analysis of the clone returns or raises
Analyse(i) ==
    /\ frame.k = "calls"
    /\ frame.at[i].pc = "analyse"
    /\ frame' = [frame EXCEPT !.at[i].pc = "finally"]
    /\ UNCHANGED <<routine, input, returned, tempdirs>>
    /\ UNCHANGED mainvars

\* finally: shutil.rmtree(temp_dir, ignore_errors=True), then the invocation
\* returns, or the exception or SystemExit goes on to the caller
Finally(i) ==
    /\ frame.k = "calls"
    /\ frame.at[i].pc = "finally"
    /\ tempdirs' = rmtree(tempdirs, frame.at[i].temp_dir)
    /\ frame' = [frame EXCEPT !.at[i].pc = "left"]
    /\ returned' = [returned EXCEPT !.how[i] =
                        Leaves(input.calls[i].fn, input.calls[i].course)]
    /\ UNCHANGED <<routine, input>>
    /\ UNCHANGED mainvars

NextScratch ==
    \/ \E i \in DOMAIN input.calls : Mkdtemp(i)
    \/ \E i \in DOMAIN input.calls : CloneFrom(i)
    \/ \E i \in DOMAIN input.calls : Analyse(i)
    \/ \E i \in DOMAIN input.calls : Finally(i)

SpecScratch == InitScratch /\ [][NextScratch]_vars

\* C14: every cloning invocation works in a directory it made itself, no
\* directory is written to by two invocations, and once an invocation has
\* left, by a return, an exception or SystemExit, no directory it made exists.
C14_ScratchDirectoryRemoved ==
    /\ \A i \in DOMAIN input.calls :
          /\ frame.at[i].pc \in {"try", "analyse", "finally"}
                => tempdirs[frame.at[i].temp_dir].by = i
          /\ returned.how[i] # "running"
                => /\ frame.at[i].temp_dir # 0
                   /\ \A d \in DirNames : tempdirs[d].by # i
    /\ \A d \in DirNames : tempdirs[d].users \subseteq {tempdirs[d].by}
    /\ \A i, j \in DOMAIN input.calls :
          ( /\ i # j
            /\ frame.at[i].pc \in {"try", "analyse", "finally"}
            /\ frame.at[j].pc \in {"try", "analyse", "finally"} )
          => frame.at[i].temp_dir # frame.at[j].temp_dir

\* one invocation left by SystemExit and another by an uncaught exception,
\* both after cloning into their directories
C14_Witness ==
    /\ Len(input.calls) = 2
    /\ returned.how[1] = "exit"
    /\ returned.how[2] = "raise"
    /\ frame.at[1].temp_dir # 0
    /\ frame.at[2].temp_dir # 0

\* ---------------------------------------- SizeFit: the weight family
\* _pick_min_viable_family on the file listing of a model repository.  A file
\* name is its directory, stem, shard number (0: not of the form
\* stem-0000i-of-0000n.ext) and extension, all lower-cased; sizes are in MB.
MaxListing == 3

FileName(dir, stem, shard, ext) == [dir |-> dir, stem |-> stem, shard |-> shard, ext |-> ext]

ListedNames ==
    {FileName("", "model", 0, "safetensors"),
     FileName("", "model", 0, "pt"),
     FileName("", "model", 1, "safetensors"),
     FileName("", "model", 2, "safetensors"),
     FileName("", "optimizer", 0, "pt"),
     FileName("", "readme", 0, "md"),
     FileName("onnx", "model", 0, "onnx")}

ListedSizes == {50, 200}

\* listings of up to n files with distinct names
RECURSIVE ListingsUpTo(_)
ListingsUpTo(n) ==
    IF n = 0 THEN {<<>>}
    ELSE LET shorter == ListingsUpTo(n - 1)
         IN  shorter \cup
             {Append(q, [name |-> x, sz |-> z]) :
                 q \in {r \in shorter : Len(r) = n - 1}, x \in ListedNames, z \in ListedSizes}

Listings ==
    {q \in ListingsUpTo(MaxListing) :
        \A i, j \in DOMAIN q : i # j => q[i].name # q[j].name}

_WEIGHT_EXTS == {"safetensors", "bin", "pt", "pth", "onnx", "tflite", "pb"}

\* lines 44-51; of the stems listed, "optimizer" holds one of the tokens
_looks_like_weight_file(fname) ==
    IF fname.stem \in {"optimizer", "optim", "training", "trainer", "adam"}
    THEN FALSE
    ELSE fname.ext \in _WEIGHT_EXTS

\* lines 54-65: a shard is keyed by its prefix (directory included) and
\* extension, any other file by its basename
_family_key(fname) ==
    IF fname.shard > 0
    THEN <<fname.dir, fname.stem, fname.ext>>
    ELSE <<"", fname.stem, fname.ext>>

\* lines 68-80
_framework_weight(fname) ==
    CASE fname.ext = "safetensors" -> "safetensors"
      [] fname.ext \in {"bin", "pt", "pth"} -> "pytorch"
      [] fname.ext = "onnx" -> "onnx"
      [] fname.ext = "tflite" -> "tflite"
      [] fname.ext = "pb" -> "tensorflow"
      [] OTHER -> "other"

\* lines 84-91
_FRAMEWORK_PREF ==
    [fw \in {"safetensors", "pytorch", "onnx", "tflite", "tensorflow", "other"} |->
        CASE fw = "safetensors" -> 0
          [] fw = "pytorch" -> 1
          [] fw = "onnx" -> 2
          [] fw = "tflite" -> 3
          [] fw = "tensorflow" -> 4
          [] fw = "other" -> 5]

\* sum(sz for _, sz in files)
RECURSIVE SumSizes(_)
SumSizes(files) ==
    IF files = <<>> THEN 0 ELSE files[1].sz + SumSizes(Tail(files))

\* line 99: the weight-like files, in listing order
Weights(files) == SelectSeq(files, LAMBDA f : _looks_like_weight_file(f.name))

\* keys of families, in the order the loop of lines 107-110 inserts them
RECURSIVE FamilyOrder(_, _)
FamilyOrder(weights, seen) ==
    IF weights = <<>> THEN <<>>
    ELSE LET fkey == _family_key(weights[1].name)
         IN  IF fkey \in seen THEN FamilyOrder(Tail(weights), seen)
             ELSE <<fkey>> \o FamilyOrder(Tail(weights), seen \cup {fkey})

\* families[fkey] after the loop of lines 107-110
FamilyTotal(weights, fkey) ==
    SumSizes(SelectSeq(weights, LAMBDA f : _family_key(f.name) = fkey))

\* fam_framework[fkey] after the loop: the framework of the last file of fkey
FamilyFramework(weights, fkey) ==
    LET of == SelectSeq(weights, LAMBDA f : _family_key(f.name) = fkey)
    IN  _framework_weight(of[Len(of)].name)

NoBest == [k |-> "none"]
Best(key, total) == [k |-> "best", key |-> key, total |-> total]

\* the body of the loop without the tie-break of lines 119-124
Chosen_without_tie_break(best, key, total, weights) ==
    IF best.k = "none" THEN Best(key, total)
    ELSE IF total < best.total THEN Best(key, total)
    ELSE best

\* lines 117-124: best_key, best_total after the family key with its total
Chosen(best, key, total, weights) ==
    IF best.k = "none" THEN Best(key, total)
    ELSE IF total < best.total THEN Best(key, total)
    ELSE IF total = best.total
         THEN LET fw_best == _FRAMEWORK_PREF[FamilyFramework(weights, best.key)]
                  fw_new == _FRAMEWORK_PREF[FamilyFramework(weights, key)]
              IN  IF fw_new < fw_best THEN Best(key, total) ELSE best
         ELSE best

BytesResult(n, best) == [k |-> "bytes", val |-> n, best |-> best]

InitSize ==
    /\ MainIdle
    /\ routine = "_pick_min_viable_family"
    /\ input \in {[k |-> "files", files |-> q] : q \in Listings}
    /\ frame = NoCall
    /\ returned = NoCall
    /\ tempdirs = [d \in DirNames |-> NoDir]

\* _pick_min_viable_family, lines 99-115: up to the loop over the families
EnterPickFamily ==
    /\ routine = "_pick_min_viable_family"
    /\ frame = NoCall
    /\ returned = NoCall
    /\ LET weights == Weights(input.files)
       IN  IF weights = <<>>
           THEN /\ returned' = BytesResult(SumSizes(input.files), NoBest)
                /\ frame' = frame
                /\ routine' = "returned"
           ELSE /\ frame' = [k |-> "_pick_min_viable_family",
                             weights |-> weights,
                             families |-> FamilyOrder(weights, {}),
                             at |-> 1,
                             best |-> NoBest]
                /\ UNCHANGED <<returned, routine>>
    /\ UNCHANGED <<input, tempdirs>>
    /\ UNCHANGED mainvars

\* lines 116-124: the loop takes the next family
NextFamily ==
    /\ frame.k = "_pick_min_viable_family"
    /\ frame.at <= Len(frame.families)
    /\ LET key == frame.families[frame.at]
       IN  frame' = [frame EXCEPT
                !.best = Chosen(@, key, FamilyTotal(frame.weights, key), frame.weights),
                !.at = @ + 1]
    /\ UNCHANGED <<routine, input, returned, tempdirs>>
    /\ UNCHANGED mainvars

\* line 125: return int(best_total or 0)
ReturnBestTotal ==
    /\ frame.k = "_pick_min_viable_family"
    /\ frame.at > Len(frame.families)
    /\ returned' = BytesResult(IF frame.best.k = "none" THEN 0 ELSE frame.best.total,
                               frame.best)
    /\ frame' = NoCall
    /\ routine' = "returned"
    /\ UNCHANGED <<input, tempdirs>>
    /\ UNCHANGED mainvars

NextSize ==
    \/ EnterPickFamily
    \/ NextFamily
    \/ ReturnBestTotal

SpecSize == InitSize /\ [][NextSize]_vars

\* the family keys of the weight-like files of a listing
FamiliesOf(files) == {_family_key(files[i].name) : i \in {j \in DOMAIN files : _looks_like_weight_file(files[j].name)}}

\* total size of the weight-like files of family fkey
TotalOf(files, fkey) ==
    SumOver([i \in DOMAIN files |-> files[i].sz],
            {i \in DOMAIN files : /\ _looks_like_weight_file(files[i].name)
                                  /\ _family_key(files[i].name) = fkey})

\* the framework of the files of family fkey
FrameworkOf(files, fkey) ==
    LET i == CHOOSE j \in DOMAIN files : /\ _looks_like_weight_file(files[j].name)
                                         /\ _family_key(files[j].name) = fkey
    IN  _framework_weight(files[i].name)

\* C15: for a listing with at least one weight-like file,
\* _pick_min_viable_family returns the smallest total size over the weight
\* families, and the family it settles on is, among the families of that
\* size, one of the most preferred framework in the order safetensors,
\* pytorch, onnx, tflite, tensorflow, other.
C15_SmallestFamilyPreferredFramework ==
    ( /\ returned.k = "bytes"
      /\ FamiliesOf(input.files) # {} )
    => /\ returned.best.k = "best"
       /\ returned.best.key \in FamiliesOf(input.files)
       /\ returned.val = TotalOf(input.files, returned.best.key)
       /\ \A fkey \in FamiliesOf(input.files) :
             /\ returned.val <= TotalOf(input.files, fkey)
             /\ TotalOf(input.files, fkey) = returned.val
                   => _FRAMEWORK_PREF[FrameworkOf(input.files, returned.best.key)]
                         <= _FRAMEWORK_PREF[FrameworkOf(input.files, fkey)]

\* a pytorch family listed before a safetensors family of the same size, and
\* the safetensors family was settled on
C15_Witness ==
    /\ returned.k = "bytes"
    /\ Len(input.files) >= 2
    /\ input.files[1].name = FileName("", "model", 0, "pt")
    /\ input.files[2].name = FileName("", "model", 0, "safetensors")
    /\ input.files[1].sz = input.files[2].sz
    /\ returned.best.k = "best"
    /\ returned.best.key = <<"", "model", "safetensors">>
    /\ returned.val = input.files[1].sz

\* ------------------------------------------- SizeFit: the scoring curve
\* _score_on_hardware on two artifact sizes b1 <= b2 for one tier; the sizes
\* run over the budget of the tier in steps of one percent, up to
\* MaxPercent percent of it.
MaxPercent == 105

\* line 177: effective = max(1, int(limit * USABLE_FRACTION[hw_key])), in MB
Effective(hw_key) ==
    Max(1, (HARDWARE_LIMITS[hw_key] * USABLE_FRACTION[hw_key]) \div 100)

SizesFor(hw_key) == {(Effective(hw_key) * p) \div 100 : p \in 0..MaxPercent}

CurveInput(hw, b1, b2) == [k |-> "bytes", hw_key |-> hw, b1 |-> b1, b2 |-> b2]

InitCurve ==
    /\ MainIdle
    /\ routine = "_score_on_hardware"
    /\ \E hw \in Tiers :
          \E b1 \in SizesFor(hw) :
             \E b2 \in {b \in SizesFor(hw) : b1 <= b} :
                input = CurveInput(hw, b1, b2)
    /\ frame = NoCall
    /\ returned = NoCall
    /\ tempdirs = [d \in DirNames |-> NoDir]

\* _score_on_hardware(b1, hw_key)
ScoreSmaller ==
    /\ routine = "_score_on_hardware"
    /\ frame = NoCall
    /\ frame' = [k |-> "scored", s1 |-> _score_on_hardware(input.b1, input.hw_key)]
    /\ UNCHANGED <<routine, input, returned, tempdirs>>
    /\ UNCHANGED mainvars

\* _score_on_hardware(b2, hw_key)
ScoreLarger ==
    /\ routine = "_score_on_hardware"
    /\ frame.k = "scored"
    /\ returned' = [k |-> "scores", s1 |-> frame.s1,
                    s2 |-> _score_on_hardware(input.b2, input.hw_key)]
    /\ frame' = NoCall
    /\ routine' = "returned"
    /\ UNCHANGED <<input, tempdirs>>
    /\ UNCHANGED mainvars

NextCurve ==
    \/ ScoreSmaller
    \/ ScoreLarger

SpecCurve == InitCurve /\ [][NextCurve]_vars

\* C16: on every tier an artifact of zero bytes scores exactly 1.0, and of
\* two artifacts the one that is not larger scores at least as much as the
\* other, the scores being the ones rounded to two decimals.
C16_ScoreNonIncreasing ==
    returned.k = "scores" =>
        /\ input.b1 = 0 => returned.s1 = 100
        /\ input.b2 = 0 => returned.s2 = 100
        /\ returned.s1 >= returned.s2

\* a pair of sizes on the two sides of the budget (u = 1), the smaller one
\* with a score that is neither 0 nor 1
C16_Witness ==
    /\ returned.k = "scores"
    /\ input.b1 > 0
    /\ input.b1 < Effective(input.hw_key)
    /\ input.b2 > Effective(input.hw_key)
    /\ returned.s1 > 0
    /\ returned.s1 < 100
    /\ returned.s2 = 0

\* the first n elements of a list (all of it when it is shorter)
FirstN(q, n) == SubSeq(q, 1, Min(n, Len(q)))

\* C17: for every classified URL get_repo_id returns either None or the
\* identifier made of the path segments after the host: the first two for a
\* model or a code repository, the (up to two) segments after "datasets" for
\* a dataset; it never raises.
C17_RepoIdOrNone ==
    \A i \in DOMAIN classifications :
        \A j \in DOMAIN classifications[i] :
            LET u == classifications[i][j]
                r == get_repo_id(u.url, u.type)
            IN  /\ r.k \in {"id", "none"}
                /\ r.k = "id" =>
                      r.segs = IF u.type = "dataset"
                               THEN FirstN(Tail(u.url.segs), 2)
                               ELSE FirstN(u.url.segs, 2)

\* --------------------------------------- BusFactor: owners from history
\* get_bus_factor, lines 253-256, on what _collect_doa_inputs gathered: per
\* file the commits of each author (dl[f]) and the creator of the file
\* (creators[f], 0 for ""); total_by_file[f] is the sum of dl[f] and
\* contributors[f] the authors with a commit.  DOA values are in millionths.
MaxHistFiles == 1
MaxCommits == 5

Committers == {1, 2}

FileHistories ==
    {h \in [dl : [Committers -> 0..MaxCommits], creator : {0} \cup Committers] :
        \E a \in Committers : h.dl[a] > 0}

Histories == SeqsUpTo(FileHistories, MaxHistFiles) \ {<<>>}

\* math.log, in millionths, of 1 .. 13
LnMicro(n) ==
    <<0, 693147, 1098612, 1386294, 1609438, 1791759, 1945910,
      2079442, 2197225, 2302585, 2397895, 2484907, 2564949>>[n]

total_by_file(h) == SumOver(h.dl, Committers)
contributors(h) == {a \in Committers : h.dl[a] > 0}

\* a DOA that credits first authorship to everyone but the creator
_doa_first_authorship_inverted(author, h) ==
    LET DL == h.dl[author]
        AC == Max(0, total_by_file(h) - DL)
        FA == IF h.creator = author /\ h.creator # 0 THEN 0 ELSE 1
    IN  3293000 + 1098000 * FA + 164000 * DL - (321 * LnMicro(1 + AC)) \div 1000

\* _doa, lines 166-174: 3.293 + 1.098 * FA + 0.164 * DL - 0.321 * ln(1 + AC)
_doa(author, h) ==
    LET DL == h.dl[author]
        AC == Max(0, total_by_file(h) - DL)
        FA == IF h.creator = author /\ h.creator # 0 THEN 1 ELSE 0
    IN  3293000 + 1098000 * FA + 164000 * DL - (321 * LnMicro(1 + AC)) \div 1000

\* line 183: doa_by_author, {} when line 180 skips the file
DoaByAuthor(h) ==
    IF total_by_file(h) = 0 THEN <<>>
    ELSE [a \in contributors(h) |-> _doa(a, h)]

\* the largest element of a non-empty set of numbers
Greatest(S) == CHOOSE x \in S : \A y \in S : x >= y

\* an author is kept on the fixed threshold alone
KeepsAuthor_threshold_only(val, max_doa) == val > 3293000

\* line 189: val > 3.293 and val > 0.75 * max_doa
KeepsAuthor(val, max_doa) == val > 3293000 /\ 4 * val > 3 * max_doa

\* _authors_by_file, lines 179-192: authors_of_file[f] for one file
OwnersOfFile(h) ==
    IF total_by_file(h) = 0 THEN {}
    ELSE LET doa_by_author == [a \in contributors(h) |-> _doa(a, h)]
         IN  IF contributors(h) = {} THEN {}
             ELSE LET max_doa == Greatest({doa_by_author[a] : a \in contributors(h)})
                  IN  {a \in contributors(h) : KeepsAuthor(doa_by_author[a], max_doa)}

InitOwners ==
    /\ MainIdle
    /\ routine = "get_bus_factor"
    /\ input \in {[k |-> "history", history |-> h] : h \in Histories}
    /\ frame = NoCall
    /\ returned = NoCall
    /\ tempdirs = [d \in DirNames |-> NoDir]

\* _authors_by_file, line 177
EnterAuthorsByFile ==
    /\ routine = "get_bus_factor"
    /\ input.k = "history"
    /\ frame = NoCall
    /\ frame' = [k |-> "_authors_by_file", authors_of_file |-> <<>>,
                 doa_by_author |-> <<>>]
    /\ UNCHANGED <<routine, input, returned, tempdirs>>
    /\ UNCHANGED mainvars

\* _authors_by_file, lines 178-192: the loop takes the next file
AuthorsOfNextFile ==
    /\ frame.k = "_authors_by_file"
    /\ Len(frame.authors_of_file) < Len(input.history)
    /\ LET f == Len(frame.authors_of_file) + 1
       IN  frame' = [frame EXCEPT
                !.authors_of_file = Append(@, OwnersOfFile(input.history[f])),
                !.doa_by_author = DoaByAuthor(input.history[f])]
    /\ UNCHANGED <<routine, input, returned, tempdirs>>
    /\ UNCHANGED mainvars

\* _authors_by_file, line 193, and get_bus_factor, lines 253-254: the owner
\* sets are what _compute_bus_factor is called with
ReturnAuthorsByFile ==
    /\ frame.k = "_authors_by_file"
    /\ Len(frame.authors_of_file) = Len(input.history)
    /\ input' = [k |-> "owners", authors_of_file |-> frame.authors_of_file,
                 history |-> input.history]
    /\ frame' = NoCall
    /\ UNCHANGED <<routine, returned, tempdirs>>
    /\ UNCHANGED mainvars

NextOwners ==
    \/ EnterAuthorsByFile
    \/ AuthorsOfNextFile
    \/ ReturnAuthorsByFile
    \/ EnterComputeBusFactor
    \/ RemovalIteration
    \/ NormalizeScore

SpecOwners == InitOwners /\ [][NextOwners]_vars

\* the authors with a commit to the file whose DOA is above 3.293 and above
\* three quarters of the DOA of every author with a commit to the file
QualifiedAuthors(h) ==
    {a \in Committers :
        /\ h.dl[a] > 0
        /\ _doa(a, h) > 3293000
        /\ \A b \in Committers : h.dl[b] > 0 => 4 * _doa(a, h) > 3 * _doa(b, h)}

\* C20: the owner set _authors_by_file gives a file holds exactly the
\* contributing authors whose DOA is above 3.293 and above 75% of the
\* largest DOA on the file, and the files without such an author are the
\* files that are abandoned when the removal simulation begins.
C20_OwnersByDoa ==
    input.k = "owners" =>
        /\ \A f \in DOMAIN input.history :
              input.authors_of_file[f] = QualifiedAuthors(input.history[f])
        /\ (frame.k = "_compute_bus_factor" /\ frame.removed = <<>>)
              => frame.abandoned =
                    {f \in DOMAIN input.history : QualifiedAuthors(input.history[f]) = {}}

\* a file with an author whose DOA is above 3.293 but not above 75% of the
\* largest one, at the start of the simulation
C20_Witness ==
    /\ input.k = "owners"
    /\ frame.k = "_compute_bus_factor"
    /\ frame.removed = <<>>
    /\ \E f \in DOMAIN input.history :
          \E a \in Committers :
             /\ input.history[f].dl[a] > 0
             /\ _doa(a, input.history[f]) > 3293000
             /\ a \notin input.authors_of_file[f]

\* C21: on a file, the DOA computed for the author who created it is above
\* the DOA computed for every other author with fewer modifications of the
\* file than the creator has.
C21_CreatorWithMoreCommitsLeads ==
    (frame.k = "_authors_by_file" /\ Len(frame.authors_of_file) > 0) =>
        LET h == input.history[Len(frame.authors_of_file)]
            doa == frame.doa_by_author
        IN  \A a, b \in DOMAIN doa :
                (h.creator = a /\ h.dl[a] > h.dl[b]) => doa[a] > doa[b]

\* the DOA of both authors of a file was computed, the creator having more
\* modifications than the other author
C21_Witness ==
    /\ frame.k = "_authors_by_file"
    /\ Len(frame.authors_of_file) > 0
    /\ LET h == input.history[Len(frame.authors_of_file)]
       IN  /\ DOMAIN frame.doa_by_author = Committers
           /\ h.creator = 1
           /\ h.dl[1] > h.dl[2]
           /\ frame.doa_by_author[1] > frame.doa_by_author[2]

\* total size of the shards among weights with the prefix and extension of fname
ShardTotal(weights, fname) ==
    SumSizes(SelectSeq(weights, LAMBDA f : /\ f.name.shard > 0
                                           /\ f.name.dir = fname.dir
                                           /\ f.name.stem = fname.stem
                                           /\ f.name.ext = fname.ext))

\* C22: once the weight files are grouped, every shard is in the family keyed
\* by its prefix and extension, and the total of that family is the sum of
\* the sizes of the shards of that prefix and extension; every other file is
\* in the family keyed by its basename.
C22_ShardsFormOneFamily ==
    frame.k = "_pick_min_viable_family" =>
        \A i \in DOMAIN frame.weights :
            LET fname == frame.weights[i].name
                fkey == _family_key(fname)
            IN  /\ fkey \in Range(frame.families)
                /\ fname.shard > 0 =>
                      /\ fkey = <<fname.dir, fname.stem, fname.ext>>
                      /\ FamilyTotal(frame.weights, fkey) = ShardTotal(frame.weights, fname)
                /\ fname.shard = 0 => fkey = <<"", fname.stem, fname.ext>>

\* C23: on every tier an artifact that fits the usable budget (0 < u <= 1)
\* has a score above 0, and a score of 0 is given only to artifacts over the
\* budget (u > 1).
C23_PositiveWithinBudget ==
    returned.k = "scores" =>
        /\ (0 < input.b1 /\ input.b1 <= Effective(input.hw_key)) => returned.s1 > 0
        /\ (0 < input.b2 /\ input.b2 <= Effective(input.hw_key)) => returned.s2 > 0
        /\ returned.s1 = 0 => input.b1 > Effective(input.hw_key)
        /\ returned.s2 = 0 => input.b2 > Effective(input.hw_key)

\* C24: when the size task could not fetch the listing or the repository
\* size (the fetch raised or get_repo_id gave no identifier), the scores it
\* returns hold no tier at the best score 1.0.
C24_FailedFetchScoresLow ==
    ( /\ pc = "pool"
      /\ futures["size"].st \in {"done", "taken"}
      /\ \/ ~Answer(world, "size").ok
         \/ get_repo_id(CurUrl, CurType).k = "none" )
    => /\ futures["size"].res.tag = "ret"
       /\ futures["size"].res.val.k = "map" =>
             \A t \in Tiers : futures["size"].res.val.m[t] < 1000

\* C25: at most MAX_WORKERS tasks run at the same time, and a row is printed
\* only when no submitted task is pending or running, a pool was opened and
\* closed for every URL of the line, and every task submitted to those pools
\* was run and its outcome (a result or an exception) taken.
C25_RowAfterAllTasks ==
    [][ /\ Cardinality(Running') <= MAX_WORKERS
        /\ Len(out') > Len(out) =>
              /\ \A m \in Metrics : futures[m].st \in {"none", "taken"}
              /\ Len(ran) = Len(Line)
              /\ \A k \in 1..Len(ran) :
                    \A m \in Metrics :
                       IF m \in TasksFor(Line[k].type)
                       THEN /\ ran[k][m].st = "taken"
                            /\ ran[k][m].res # NoRes
                       ELSE ran[k][m].st = "none"
      ]_vars

\* a row was printed for a line with more tasks than workers: one of its
\* tasks waited for a worker
C25_Witness ==
    /\ pc = "loop"
    /\ Len(out) = li
    /\ li > 0
    /\ \E k \in 1..Len(ran) :
          /\ Cardinality({m \in Metrics : ran[k][m].st # "none"}) > MAX_WORKERS
          /\ \E m \in Metrics : ran[k][m].st = "taken" /\ ran[k][m].t0 > ran[k][m].sub

\* C26: the rows are printed in the order of the input lines, and while a
\* task of a line is pending or running the rows of all the lines before it,
\* and no other row, have been printed.
C26_LinesOneAfterAnother ==
    /\ \A i \in 1..Len(out) : out[i].line = i
    /\ (\E m \in Metrics : futures[m].st \in {"pending", "running"})
          => Len(out) = li - 1

\* a task of the second line runs after the row of the first line was printed
C26_Witness ==
    /\ li = 2
    /\ Len(out) = 1
    /\ out[1].line = 1
    /\ \E m \in Metrics : futures[m].st = "running"

\* C27: for a dataset with zero likes the dataset_quality task hands a pair
\* (score, latency) to main, and the row of the line shows the normalised
\* downloads score, rounded to two decimals, as dataset_quality.
C27_ZeroLikesDownloadsScore ==
    RowPrinted =>
        \A i \in Rows(li) :
            \A k \in 1..Len(ran) :
                LET info == Answer(world, "dataset_quality")
                IN  ( /\ ran[k]["dataset_quality"].st # "none"
                      /\ get_repo_id(Line[k].url, Line[k].type).k = "id"
                      /\ IF info.ok THEN info.likes = 0 ELSE FALSE )
                    => /\ ran[k]["dataset_quality"].res.tag = "ret"
                       /\ out[i].rec.score["dataset_quality"]
                              = RoundDiv(normalize(info.downloads, max_downloads), 100)

\* _compute_bus_factor followed to its return: the owner maps of up to
\* MaxLoopFiles files over MaxLoopAuthors authors; the statements of the
\* routine are executed one after the other until it returns
MaxLoopFiles == 3
MaxLoopAuthors == 2

LoopOwnerMaps == UNION {[1..n -> SUBSET (1..MaxLoopAuthors)] : n \in 0..MaxLoopFiles}

InitLoop ==
    /\ MainIdle
    /\ routine = "get_bus_factor"
    /\ input \in {[k |-> "owners", authors_of_file |-> o] : o \in LoopOwnerMaps}
    /\ frame = NoCall
    /\ returned = NoCall
    /\ tempdirs = [d \in DirNames |-> NoDir]

SpecBusFair == InitLoop /\ [][NextBus]_vars /\ WF_vars(NextBus)

\* C28: _compute_bus_factor terminates on every map of owner sets: every turn
\* of the loop that goes on takes one author out of the remaining owning
\* authors and leaves no file out of the abandoned set that was in it; the
\* number of removals returned is at most the number of distinct owning
\* authors; and the normalised score lies in [0, 1] and is 0 when there is no
\* file or no owner.
C28_RemovalTerminates ==
    /\ [][ (frame.k = "_compute_bus_factor" /\ frame'.k = "_compute_bus_factor") =>
              /\ frame'.active_authors \subseteq frame.active_authors
              /\ Cardinality(frame'.active_authors) = Cardinality(frame.active_authors) - 1
              /\ frame.abandoned \subseteq frame'.abandoned ]_vars
    /\ [](returned.k = "bus_factor" =>
              returned.val <= Cardinality(AllOwners(input.authors_of_file)))
    /\ [](returned.k = "score" =>
              /\ returned.val >= 0
              /\ returned.val <= 1000
              /\ AllOwners(input.authors_of_file) = {} => returned.val = 0)
    /\ <>(returned.k = "score")

\* a score strictly between 0 and 1 came out of a simulation over several
\* files, one of them without owner
C28_Witness ==
    /\ returned.k = "score"
    /\ returned.val > 0
    /\ returned.val < 1000
    /\ \E f \in DOMAIN input.authors_of_file : input.authors_of_file[f] = {}

\* C29: when the scoring of a line begins, name, category, every score,
\* every latency and the size mapping hold their defaults; and every printed
\* row is the row its line gets when it is the only line of the input, so
\* nothing of an earlier line shows in it.
C29_LineStartsFromDefaults ==
    /\ (pc = "urls" /\ ui = 0) =>
          /\ name = ""
          /\ category = ""
          /\ scores = [m \in ScalarMetrics |-> Num(0)]
          /\ latency = [m \in Metrics |-> 0]
          /\ size_dict = Map(DefaultSize)
    /\ \A i \in 1..Len(out) :
          LET cls == classifications[out[i].line]
          IN  out[i].rec = IF Len(cls) = 0 THEN DefaultRecord
                           ELSE RowAlone(cls, out[i].rec.net_score_latency)

\* the row of a second line shows 0 for a metric the first line scored
C29_Witness ==
    /\ Len(out) = 2
    /\ \E m \in ScalarMetrics :
          /\ out[1].rec.score[m] > 0
          /\ out[2].rec.score[m] = 0
          /\ out[2].rec.net_score > 0

\* C30: the loop variables url and url_type are rebound (the next URL of the
\* line, or the next line) only when no submitted task is pending or running;
\* and a task that is taken by a worker or ends its call does so while the
\* loop stands at the URL for which it was submitted, whose kind has that task.
C30_TasksSeeTheirOwnUrl ==
    [][ /\ (ui' # ui \/ li' # li) =>
              \A m \in Metrics : futures[m].st \notin {"pending", "running"}
        /\ \A m \in Metrics :
              (futures[m].st \in {"pending", "running"} /\ futures'[m].st # futures[m].st) =>
                 /\ li' = li /\ ui' = ui
                 /\ ui \in 1..Len(Line)
                 /\ m \in TasksFor(CurType)
                 /\ futures[m].sub >= start_time
                 /\ futures'[m].st \in {"running", "done"}
      ]_vars

\* a task of the second URL of a line is running, the pool of the first URL,
\* of another kind, closed with every one of its tasks taken
C30_Witness ==
    /\ pc = "pool"
    /\ ui = 2
    /\ Len(ran) = 1
    /\ Line[1].type # Line[2].type
    /\ \E m \in Metrics : futures[m].st = "running"
    /\ \E m \in TasksFor(Line[1].type) : ran[1][m].st = "taken"

====
